---- MODULE Spec2Model ----
(***************************************************************************)
(* Value codec and routing-key composer of the CQL driver                  *)
(* (lib/encoder.js): guessDataType, encode, decode and setRoutingKey.      *)
(*                                                                         *)
(* JavaScript values are records with the same six fields, so that any two *)
(* of them can be compared:                                                *)
(*   k   the runtime shape ("undefined", "null", "number", "string",       *)
(*       "boolean", "date", "long", "integer", "buffer", "array",          *)
(*       "object"; "entry" is one own property of an object)               *)
(*   n   the number, the boolean (0/1), the milliseconds of a Date, the    *)
(*       low 32 bits of a Long, the value of an Integer                    *)
(*   h   the high 32 bits of a Long                                        *)
(*   nan TRUE for NaN and for an invalid Date                              *)
(*   b   the characters of a string (Unicode scalar values), the bytes of  *)
(*       a Buffer, the key of an entry                                     *)
(*   e   the elements of an array, the entries of an object, the value of  *)
(*       an entry                                                          *)
(* Numbers are integers of at most 32 bits, or NaN.                        *)
(***************************************************************************)
EXTENDS Integers, Sequences, FiniteSets, TLC

VARIABLES
  op,       \* the call made last: "none", "guess", "encode", "roundtrip", "decode",
            \* "options" (the caller built params and options), "setRoutingKey"
  value,    \* the value guessDataType or encode was called with
  hint,     \* the type hint encode was called with
  wire,     \* the wire bytes: what encode returned, what decode was called with
  tree,     \* the type tree decode was called with
  result,   \* what the call returned or threw: [err, val]
  params,   \* the positional parameters handed to setRoutingKey
  options,  \* the caller's QueryOptions object, mutated in place
  pre       \* options as they were when setRoutingKey was entered

vars == <<op, value, hint, wire, tree, result, params, options, pre>>

----------------------------------------------------------------------------
(* Values *)

V(k, n, h, nan, b, e) == [k |-> k, n |-> n, h |-> h, nan |-> nan, b |-> b, e |-> e]

Undefined    == V("undefined", 0, 0, FALSE, <<>>, <<>>)
Null         == V("null", 0, 0, FALSE, <<>>, <<>>)
Num(n)       == V("number", n, 0, FALSE, <<>>, <<>>)
NaN          == V("number", 0, 0, TRUE, <<>>, <<>>)
Bool(t)      == V("boolean", IF t THEN 1 ELSE 0, 0, FALSE, <<>>, <<>>)
Str(chars)   == V("string", 0, 0, FALSE, chars, <<>>)
Buf(bytes)   == V("buffer", 0, 0, FALSE, bytes, <<>>)
Arr(elems)   == V("array", 0, 0, FALSE, <<>>, elems)
DateV(ms)    == V("date", ms, 0, FALSE, <<>>, <<>>)
InvalidDate  == V("date", 0, 0, TRUE, <<>>, <<>>)
LongV(hi, lo) == V("long", lo, hi, FALSE, <<>>, <<>>)
IntegerV(n)  == V("integer", n, 0, FALSE, <<>>, <<>>)
Entry(key, v) == V("entry", 0, 0, FALSE, key, <<v>>)
Obj(entries) == V("object", 0, 0, FALSE, <<>>, entries)

IsNullish(v) == v.k \in {"null", "undefined"}

(* What a call returned (err = "") or the error it threw: "TypeError",
   "Error", "OutOfBounds" (a Buffer read or write outside its range).
   "Unmodelled" marks a call whose outcome these definitions do not represent
   (the fallback date parser, a float that needs rounding, ...); no action
   makes such a call. *)
Ok(v)      == [err |-> "", val |-> v]
Throw(err) == [err |-> err, val |-> Undefined]

----------------------------------------------------------------------------
(* Type catalog *)

(* The canonical type codes (the option ids of the CQL binary protocol). *)
dataTypes ==
  [custom |-> 0, ascii |-> 1, bigint |-> 2, blob |-> 3, boolean |-> 4,
   counter |-> 5, decimal |-> 6, double |-> 7, float |-> 8, int |-> 9,
   text |-> 10, timestamp |-> 11, uuid |-> 12, varchar |-> 13, varint |-> 14,
   timeuuid |-> 15, inet |-> 16, list |-> 32, map |-> 33, set |-> 34]

(* Type hints, as the caller may pass them:
     hk = "undefined", "null"   no hint
     hk = "number"              a type code
     hk = "string"              a type name, possibly generic
     hk = "object"              {type: code, subtypes: [...]}; tyNum is
                                whether its type property is a number
     hk = "boolean"             true: neither a string nor a number *)
H(hk, code, tyNum, name, hasSubs, subs) ==
  [hk |-> hk, code |-> code, tyNum |-> tyNum, name |-> name,
   hasSubs |-> hasSubs, subs |-> subs]

NoHint          == H("undefined", 0, FALSE, "", FALSE, <<>>)
NullHint        == H("null", 0, FALSE, "", FALSE, <<>>)
CodeHint(c)     == H("number", c, FALSE, "", FALSE, <<>>)
NameHint(s)     == H("string", 0, FALSE, s, FALSE, <<>>)
TypeInfo(c)     == H("object", c, TRUE, "", FALSE, <<>>)
Desc(c, subs)   == H("object", c, TRUE, "", TRUE, subs)
EmptyObjectHint == H("object", 0, FALSE, "", FALSE, <<>>)
TrueHint        == H("boolean", 0, FALSE, "", FALSE, <<>>)

(* JavaScript truthiness of a hint: if (typeInfo). *)
Truthy(t) ==
  CASE t.hk \in {"undefined", "null"} -> FALSE
    [] t.hk = "number" -> t.code # 0
    [] t.hk = "string" -> t.name # ""
    [] OTHER -> TRUE

(* The generic names of the catalog's grammar, name<sub,...>, that the model
   draws from; matching is case-insensitive. *)
GenericNames ==
  [n \in {"list<int>", "set<text>", "list<double>", "list<text>", "map<text,int>"} |->
     CASE n = "list<int>"     -> Desc(dataTypes.list, <<TypeInfo(dataTypes.int)>>)
       [] n = "set<text>"     -> Desc(dataTypes.set, <<TypeInfo(dataTypes.text)>>)
       [] n = "list<double>"  -> Desc(dataTypes.list, <<TypeInfo(dataTypes.double)>>)
       [] n = "list<text>"    -> Desc(dataTypes.list, <<TypeInfo(dataTypes.text)>>)
       [] n = "map<text,int>" -> Desc(dataTypes.map,
                                      <<TypeInfo(dataTypes.text), TypeInfo(dataTypes.int)>>)]

(* name.toLowerCase(), for the names drawn that are not lower case. *)
toLowerCase(name) ==
  CASE name = "INT" -> "int"
    [] name = "Text" -> "text"
    [] name = "LIST<INT>" -> "list<int>"
    [] OTHER -> name

(* dataTypes.getByName: the descriptor of a name, or a type error. *)
getByName(name) ==
  LET n == toLowerCase(name)
  IN IF n \in DOMAIN dataTypes THEN [err |-> "", t |-> TypeInfo(dataTypes[n])]
     ELSE IF n \in DOMAIN GenericNames THEN [err |-> "", t |-> GenericNames[n]]
     ELSE [err |-> "TypeError", t |-> NoHint]

----------------------------------------------------------------------------
(* Characters are Unicode scalar values. *)

IsDigit(c)    == c \in 48..57
IsHexDigit(c) == c \in 48..57 \/ c \in 97..102 \/ c \in 65..70
HexVal(c)     == IF c \in 48..57 THEN c - 48
                 ELSE IF c \in 97..102 THEN c - 87 ELSE c - 55

(* /^[0-9a-f]{8}-[0-9a-f]{4}-[0-9a-f]{4}-[0-9a-f]{4}-[0-9a-f]{12}$/i *)
UuidRegexTest(s) ==
  /\ Len(s) = 36
  /\ \A i \in 1..36 :
       IF i \in {9, 14, 19, 24} THEN s[i] = 45 ELSE IsHexDigit(s[i])

(* A string of the shape of a UUID whose hex digits are all the character c. *)
UuidLike(c) == [i \in 1..36 |-> IF i \in {9, 14, 19, 24} THEN 45 ELSE c]

----------------------------------------------------------------------------
(* Type inference *)

UuidRegexTestLowerOnly(s) ==
  /\ Len(s) = 36
  /\ \A i \in 1..36 :
       IF i \in {9, 14, 19, 24} THEN s[i] = 45
       ELSE s[i] \in 48..57 \/ s[i] \in 97..102

guessDataTypeNoUpper(v) ==
  CASE v.k = "number"  -> dataTypes.double
    [] v.k = "date"    -> dataTypes.timestamp
    [] v.k = "long"    -> dataTypes.bigint
    [] v.k = "integer" -> dataTypes.varint
    [] v.k = "string"  -> IF UuidRegexTestLowerOnly(v.b) THEN dataTypes.uuid
                          ELSE dataTypes.text
    [] v.k = "buffer"  -> dataTypes.blob
    [] v.k = "array"   -> dataTypes.list
    [] v.k = "boolean" -> dataTypes.boolean
    [] OTHER -> -1

guessDataTypeObjectAsMap(v) ==
  CASE v.k = "number"  -> dataTypes.double
    [] v.k = "date"    -> dataTypes.timestamp
    [] v.k = "long"    -> dataTypes.bigint
    [] v.k = "integer" -> dataTypes.varint
    [] v.k = "string"  -> IF UuidRegexTest(v.b) THEN dataTypes.uuid
                          ELSE dataTypes.text
    [] v.k = "buffer"  -> dataTypes.blob
    [] v.k = "array"   -> dataTypes.list
    [] v.k = "boolean" -> dataTypes.boolean
    [] v.k = "object"  -> dataTypes.map
    [] OTHER -> -1

(* guessDataType: the type code guessed for a value, -1 for its null. *)
guessDataType(v) ==
  CASE v.k = "number"  -> dataTypes.double
    [] v.k = "date"    -> dataTypes.timestamp
    [] v.k = "long"    -> dataTypes.bigint
    [] v.k = "integer" -> dataTypes.varint
    [] v.k = "string"  -> IF UuidRegexTest(v.b) THEN dataTypes.uuid
                          ELSE dataTypes.text
    [] v.k = "buffer"  -> dataTypes.blob
    [] v.k = "array"   -> dataTypes.list
    [] v.k = "boolean" -> dataTypes.boolean
    [] OTHER -> -1

----------------------------------------------------------------------------
(* Numbers and bytes *)

Pow2(k) == 2 ^ k

(* The position of the highest set bit of a, for 1 <= a < 2^31. *)
Log2(a) == CHOOSE x \in 0..30 : a \div Pow2(x) = 1

Abs(n) == IF n < 0 THEN -n ELSE n

Int32LE(x) ==
  << x % 256, (x \div 256) % 256, (x \div 65536) % 256, (x \div 16777216) % 256 >>

(* Buffer.writeInt32BE / readInt32BE: four bytes, big-endian two's complement. *)
Int32BE(x) ==
  << (x \div 16777216) % 256, (x \div 65536) % 256, (x \div 256) % 256, x % 256 >>

ReadInt32BE(b, off) ==
  (IF b[off + 1] >= 128 THEN b[off + 1] - 256 ELSE b[off + 1]) * 16777216
    + b[off + 2] * 65536 + b[off + 3] * 256 + b[off + 4]

(* Buffer.writeUInt16BE / readUInt16BE. *)
UInt16BE(n) == << (n \div 256) % 256, n % 256 >>
ReadUInt16BE(b, off) == b[off + 1] * 256 + b[off + 2]

(* The byte at bit position p of frac * 2^(width - x), where frac < 2^x. *)
MantissaByte(frac, x, width, p) ==
  LET s == width - x - p IN
    IF s >= 8 THEN 0
    ELSE IF s >= 0 THEN ((frac % Pow2(8 - s)) * Pow2(s)) % 256
    ELSE IF -s > 30 THEN 0
    ELSE (frac \div Pow2(-s)) % 256

(* Buffer.writeDoubleBE of an integer-valued number: IEEE 754 binary64. *)
DoubleBE(n) ==
  IF n = 0 THEN <<0, 0, 0, 0, 0, 0, 0, 0>>
  ELSE LET a == Abs(n)
           x == Log2(a)
           biased == x + 1023
           frac == a - Pow2(x)
           sign == IF n < 0 THEN 128 ELSE 0
       IN << sign + (biased \div 16),
             ((biased % 16) * 16) + MantissaByte(frac, x, 52, 48),
             MantissaByte(frac, x, 52, 40), MantissaByte(frac, x, 52, 32),
             MantissaByte(frac, x, 52, 24), MantissaByte(frac, x, 52, 16),
             MantissaByte(frac, x, 52, 8), MantissaByte(frac, x, 52, 0) >>

DoubleNaN == <<127, 248, 0, 0, 0, 0, 0, 0>>

(* Buffer.writeFloatBE of an integer-valued number below 2^24: binary32. *)
FloatBE(n) ==
  IF n = 0 THEN <<0, 0, 0, 0>>
  ELSE LET a == Abs(n)
           x == Log2(a)
           biased == x + 127
           frac == a - Pow2(x)
           sign == IF n < 0 THEN 128 ELSE 0
       IN << sign + (biased \div 2),
             ((biased % 2) * 128) + (MantissaByte(frac, x, 23, 16) % 128),
             MantissaByte(frac, x, 23, 8), MantissaByte(frac, x, 23, 0) >>

FloatNaN == <<127, 192, 0, 0>>

----------------------------------------------------------------------------
(* Strings *)

(* new Buffer(string, 'utf8'), one character. *)
Utf8Char(c) ==
  IF c < 128 THEN <<c>>
  ELSE IF c < 2048 THEN <<192 + (c \div 64), 128 + (c % 64)>>
  ELSE IF c < 65536 THEN <<224 + (c \div 4096), 128 + ((c \div 64) % 64), 128 + (c % 64)>>
  ELSE <<240 + (c \div 262144), 128 + ((c \div 4096) % 64), 128 + ((c \div 64) % 64),
         128 + (c % 64)>>

(* The k-th smallest member of a set of integers. *)
Nth(S, k) == CHOOSE i \in S : Cardinality({j \in S : j < i}) = k - 1

(* The members of a set of integers, in increasing order. *)
Ascending(S) == [k \in 1..Cardinality(S) |-> Nth(S, k)]

(* Buffer.concat(parts): the parts one after the other. *)
RECURSIVE Concat(_)
Concat(parts) ==
  IF parts = <<>> THEN <<>>
  ELSE IF Len(parts) = 1 THEN parts[1]
  ELSE Concat(SubSeq(parts, 1, Len(parts) \div 2))
         \o Concat(SubSeq(parts, (Len(parts) \div 2) + 1, Len(parts)))

(* The least member of a non-empty set of integers. *)
Min(S) == CHOOSE i \in S : \A j \in S : i <= j

(* new Buffer(string, 'utf8'): the bytes of each character, in order. *)
Utf8(chars) == Concat([i \in 1..Len(chars) |-> Utf8Char(chars[i])])

IsCont(b, i) == i <= Len(b) /\ b[i] \in 128..191

(* The length of the well-formed UTF-8 sequence that starts at b[i], 0 when
   none does. *)
Utf8Len(b, i) ==
  IF b[i] < 128 THEN 1
  ELSE IF b[i] \in 194..223 /\ IsCont(b, i + 1) THEN 2
  ELSE IF b[i] \in 224..239 /\ IsCont(b, i + 1) /\ IsCont(b, i + 2)
          /\ (b[i] - 224) * 4096 + (b[i + 1] - 128) * 64 >= 2048
          /\ ~((b[i] - 224) * 4096 + (b[i + 1] - 128) * 64 \in 55296..57343)
    THEN 3
  ELSE IF b[i] \in 240..244 /\ IsCont(b, i + 1) /\ IsCont(b, i + 2) /\ IsCont(b, i + 3)
          /\ (b[i] - 240) * 262144 + (b[i + 1] - 128) * 4096 \in 65536..1114111
    THEN 4
  ELSE 0

(* The character of the sequence at b[i]; U+FFFD for an ill-formed byte. *)
Utf8At(b, i) ==
  CASE Utf8Len(b, i) = 1 -> b[i]
    [] Utf8Len(b, i) = 2 -> (b[i] - 192) * 64 + (b[i + 1] - 128)
    [] Utf8Len(b, i) = 3 ->
         (b[i] - 224) * 4096 + (b[i + 1] - 128) * 64 + (b[i + 2] - 128)
    [] Utf8Len(b, i) = 4 ->
         (b[i] - 240) * 262144 + (b[i + 1] - 128) * 4096 + (b[i + 2] - 128) * 64
           + (b[i + 3] - 128)
    [] OTHER -> 65533

(* buffer.toString('utf8'), read from b[i] on: one character per well-formed
   sequence and per byte that belongs to none. *)
Utf8Decode(b, i) ==
  LET starts == {p \in i..Len(b) :
                   ~\E q \in i..(p - 1) : q + Utf8Len(b, q) > p}
      order == Ascending(starts)
  IN [k \in 1..Len(order) |-> Utf8At(b, order[k])]

(* new Buffer(string, 'ascii'): the low byte of each character. *)
AsciiBytes(chars) == [i \in 1..Len(chars) |-> chars[i] % 256]

(* buffer.toString('ascii'): the low seven bits of each byte. *)
AsciiDecode(b) == [i \in 1..Len(b) |-> b[i] % 128]

IsWhite(c) == c \in {9, 10, 11, 12, 13, 32, 160}

RECURSIVE TrimLeft(_)
TrimLeft(s) == IF s # <<>> /\ IsWhite(Head(s)) THEN TrimLeft(Tail(s)) ELSE s

RECURSIVE TrimRight(_)
TrimRight(s) ==
  IF s # <<>> /\ IsWhite(s[Len(s)]) THEN TrimRight(SubSeq(s, 1, Len(s) - 1)) ELSE s

RECURSIVE DigitsValue(_, _, _)
DigitsValue(s, radix, acc) ==
  IF s = <<>> THEN acc
  ELSE DigitsValue(Tail(s), radix, acc * radix + HexVal(Head(s)))

Num32(n) == [nan |-> FALSE, oob |-> FALSE, n |-> n]
NotANumber == [nan |-> TRUE, oob |-> FALSE, n |-> 0]
OutOfInt32 == [nan |-> FALSE, oob |-> TRUE, n |-> 0]

(* ToNumber of a string: empty is 0, 0x-hex, signed decimal digits, else NaN
   (fractions and exponents are not drawn by the model). *)
StringToNumber(str) ==
  LET s == TrimRight(TrimLeft(str))
      body == IF s # <<>> /\ Head(s) \in {43, 45} THEN Tail(s) ELSE s
  IN IF s = <<>> THEN Num32(0)
     ELSE IF Len(s) >= 3 /\ s[1] = 48 /\ s[2] \in {120, 88}
             /\ \A i \in 3..Len(s) : IsHexDigit(s[i])
       THEN (IF Len(s) > 9 THEN OutOfInt32
             ELSE Num32(DigitsValue(SubSeq(s, 3, Len(s)), 16, 0)))
     ELSE IF body # <<>> /\ \A i \in 1..Len(body) : IsDigit(body[i])
       THEN (IF Len(body) > 9 THEN OutOfInt32
             ELSE Num32((IF Head(s) = 45 THEN -1 ELSE 1) * DigitsValue(body, 10, 0)))
     ELSE NotANumber

----------------------------------------------------------------------------
(* JavaScript conversions the encoders rely on *)

(* ToNumber(value), as isNaN(value) and Buffer.writeInt32BE(value) apply it. *)
RECURSIVE ToNumber(_)
ToNumber(v) ==
  CASE v.k = "number"  -> IF v.nan THEN NotANumber ELSE Num32(v.n)
    [] v.k = "boolean" -> Num32(v.n)
    [] v.k = "date"    -> IF v.nan THEN NotANumber ELSE Num32(v.n)
    [] v.k = "string"  -> StringToNumber(v.b)
    [] v.k = "long"    -> IF v.h = (IF v.n < 0 THEN -1 ELSE 0) THEN Num32(v.n)
                          ELSE OutOfInt32
    [] v.k = "integer" -> Num32(v.n)
    [] v.k = "buffer"  -> StringToNumber(Utf8Decode(v.b, 1))
    [] v.k = "array"   ->
         IF v.e = <<>> THEN Num32(0)
         ELSE IF Len(v.e) > 1 \/ v.e[1].k \in {"boolean", "date", "object"}
           THEN NotANumber
         ELSE IF IsNullish(v.e[1]) THEN Num32(0)
         ELSE ToNumber(v.e[1])
    [] v.k = "null"    -> Num32(0)
    [] OTHER -> NotANumber

(* ToBoolean(value): value ? 1 : 0. *)
ToBoolean(v) ==
  CASE v.k = "number"  -> ~v.nan /\ v.n # 0
    [] v.k = "string"  -> v.b # <<>>
    [] v.k = "boolean" -> v.n = 1
    [] v.k \in {"null", "undefined"} -> FALSE
    [] OTHER -> TRUE

(* new Date(string): the ISO year alone ("1970") is the first instant of that
   year; a string that shows no digit is no date; for the rest the parser's
   fallback decides, which is not represented. *)
DateParse(chars) ==
  IF chars = <<49, 57, 55, 48>> THEN Ok(DateV(0))
  ELSE IF \A i \in 1..Len(chars) : ~IsDigit(chars[i]) THEN Ok(InvalidDate)
  ELSE Throw("Unmodelled")

(* Where the matches of /[0-9a-f]{2}/g start in the lower-cased string: at
   every second character of each run of hex digits. *)
HexPairStarts(s) ==
  {i \in 1..(Len(s) - 1) :
     /\ IsHexDigit(s[i]) /\ IsHexDigit(s[i + 1])
     /\ LET run == CHOOSE j \in 1..i :
                     /\ \A m \in j..i : IsHexDigit(s[m])
                     /\ (j = 1 \/ ~IsHexDigit(s[j - 1]))
        IN (i - run) % 2 = 0}

(* uuid.parse(string, new Buffer(16)): the first sixteen pairs of hex digits,
   padded with zero bytes. *)
UuidParse(chars) ==
  LET order == Ascending(HexPairStarts(chars))
  IN [k \in 1..16 |->
        IF k <= Len(order)
          THEN (HexVal(chars[order[k]]) * 16) + HexVal(chars[order[k] + 1])
        ELSE 0]

(* Long: a 64-bit integer held as two signed 32-bit halves. *)
LongFromNumber(v) ==
  IF v.nan THEN LongV(0, 0) ELSE LongV(IF v.n < 0 THEN -1 ELSE 0, v.n)

IsDecimal(chars) ==
  LET body == IF chars # <<>> /\ Head(chars) = 45 THEN Tail(chars) ELSE chars
  IN body # <<>> /\ Len(body) <= 9 /\ \A i \in 1..Len(body) : IsDigit(body[i])

DecimalValue(chars) ==
  IF Head(chars) = 45 THEN -DigitsValue(Tail(chars), 10, 0)
  ELSE DigitsValue(chars, 10, 0)

LongFromString(chars) ==
  IF IsDecimal(chars) THEN Ok(LongFromNumber(Num(DecimalValue(chars))))
  ELSE Throw("TypeError")

LongToBuffer(l) == Int32BE(l.h) \o Int32BE(l.n)

LongFromBuffer(b) == LongV(ReadInt32BE(b, 0), ReadInt32BE(b, 4))

(* Integer: an arbitrary-precision integer; its bytes are the shortest two's
   complement, big-endian. *)
IntegerFromString(chars) ==
  IF IsDecimal(chars) THEN Ok(IntegerV(DecimalValue(chars)))
  ELSE Throw("TypeError")

RECURSIVE IntegerToBuffer(_)
IntegerToBuffer(n) ==
  IF n \in -128..127 THEN <<n % 256>>
  ELSE IntegerToBuffer(n \div 256) \o <<n % 256>>

RECURSIVE IntegerFromBytes(_, _)
IntegerFromBytes(b, acc) ==
  IF b = <<>> THEN acc ELSE IntegerFromBytes(Tail(b), (acc * 256) + Head(b))

IntegerFromBuffer(b) ==
  IF b = <<>> THEN IntegerV(0)
  ELSE IntegerV(IntegerFromBytes(Tail(b), IF b[1] >= 128 THEN b[1] - 256 ELSE b[1]))

----------------------------------------------------------------------------
(* Scalar encoders *)

encodeInt(v) ==
  LET Write(x) == IF x.nan THEN Throw("TypeError")
                  ELSE IF x.oob THEN Throw("OutOfBounds")
                  ELSE Ok(Buf(Int32BE(x.n)))
  IN Write(ToNumber(v))

encodeFloat(v) ==
  IF v.k # "number" THEN Throw("TypeError")
  ELSE IF ~v.nan /\ Abs(v.n) >= 16777216 THEN Throw("Unmodelled")
  ELSE Ok(Buf(IF v.nan THEN FloatNaN ELSE FloatBE(v.n)))

encodeDouble(v) ==
  IF v.k # "number" THEN Throw("TypeError")
  ELSE Ok(Buf(IF v.nan THEN DoubleNaN ELSE DoubleBE(v.n)))

encodeBigNumber(v) ==
  LET Parsed(v1) == IF v1.k = "string" THEN LongFromString(v1.b) ELSE Ok(v1)
      Write(v2) == IF v2.err # "" THEN v2
                   ELSE IF v2.val.k = "long" THEN Ok(Buf(LongToBuffer(v2.val)))
                   ELSE IF v2.val.k = "buffer" THEN Ok(v2.val)
                   ELSE Throw("TypeError")
  IN Write(Parsed(IF v.k = "number" THEN LongFromNumber(v) ELSE v))

encodeTimestamp(v) ==
  LET Write(p) ==
        IF p.err # "" THEN p
        ELSE IF p.val.k = "date" /\ p.val.nan THEN Throw("TypeError")
        ELSE encodeBigNumber(IF p.val.k = "date" THEN Num(p.val.n) ELSE p.val)
  IN Write(IF v.k = "string" THEN DateParse(v.b) ELSE Ok(v))

encodeUuid(v) ==
  IF v.k = "string" THEN Ok(Buf(UuidParse(v.b)))
  ELSE IF v.k = "buffer" THEN Ok(v)
  ELSE Throw("TypeError")

encodeVarint(v) ==
  LET Parsed(v1) == IF v1.k = "string" THEN IntegerFromString(v1.b) ELSE Ok(v1)
      Write(v2) == IF v2.err # "" THEN v2
                   ELSE IF v2.val.k = "integer" THEN Ok(Buf(IntegerToBuffer(v2.val.n)))
                   ELSE IF v2.val.k = "buffer" THEN Ok(v2.val)
                   ELSE Throw("TypeError")
  IN Write(Parsed(IF v.k = "number"
                    THEN (IF v.nan THEN IntegerV(0) ELSE IntegerV(v.n)) ELSE v))

encodeString(v, encoding) ==
  IF v.k # "string" THEN Throw("TypeError")
  ELSE Ok(Buf(IF encoding = "ascii" THEN AsciiBytes(v.b) ELSE Utf8(v.b)))

encodeBlob(v) ==
  IF v.k # "buffer" THEN Throw("TypeError") ELSE Ok(v)

encodeBoolean(v) == Ok(Buf(<<IF ToBoolean(v) THEN 1 ELSE 0>>))

(* getLengthBuffer: two bytes, big-endian, of a buffer's or array's length, of
   a number, or of 0 for null. *)
getLengthBuffer(v) ==
  IF IsNullish(v) THEN UInt16BE(0)
  ELSE IF v.k = "buffer" /\ Len(v.b) > 0 THEN UInt16BE(Len(v.b))
  ELSE IF v.k = "array" /\ Len(v.e) > 0 THEN UInt16BE(Len(v.e))
  ELSE IF v.k = "number" /\ ~v.nan THEN UInt16BE(v.n)
  ELSE UInt16BE(0)

----------------------------------------------------------------------------
(* encode *)

(* typeInfo.subtypes[i], undefined when there is none. *)
Subtype(t, i) == IF t.hasSubs /\ Len(t.subs) >= i THEN t.subs[i] ELSE NoHint

RECURSIVE DecimalChars(_)
DecimalChars(i) ==
  IF i < 10 THEN <<48 + i>> ELSE DecimalChars(i \div 10) \o <<48 + (i % 10)>>

(* The own enumerable properties for (var key in value) visits, in order. *)
OwnEntries(v) ==
  CASE v.k = "object" -> v.e
    [] v.k = "array"  -> [i \in 1..Len(v.e) |-> Entry(DecimalChars(i - 1), v.e[i])]
    [] v.k = "string" -> [i \in 1..Len(v.b) |-> Entry(DecimalChars(i - 1), Str(<<v.b[i]>>))]
    [] OTHER -> <<>>

(* The type information encode dispatches on (lines 128-145): the hint made a
   descriptor, or the guessed type; a type error when neither can be had. *)
ResolveHintFirst(v, typeInfo) ==
  IF Truthy(typeInfo) THEN
    (IF typeInfo.hk = "number" THEN [err |-> "", t |-> TypeInfo(typeInfo.code)]
     ELSE IF typeInfo.hk = "string" THEN getByName(typeInfo.name)
     ELSE IF typeInfo.hk = "object" /\ typeInfo.tyNum THEN [err |-> "", t |-> typeInfo]
     ELSE [err |-> "TypeError", t |-> NoHint])
  ELSE [err |-> "", t |-> TypeInfo(guessDataType(v))]

ResolveTypeInfo(v, typeInfo) ==
  IF Truthy(typeInfo) THEN
    (IF typeInfo.hk = "number" THEN [err |-> "", t |-> TypeInfo(typeInfo.code)]
     ELSE IF typeInfo.hk = "string" THEN getByName(typeInfo.name)
     ELSE IF typeInfo.hk = "object" /\ typeInfo.tyNum THEN [err |-> "", t |-> typeInfo]
     ELSE [err |-> "TypeError", t |-> NoHint])
  ELSE IF guessDataType(v) = -1 THEN [err |-> "TypeError", t |-> NoHint]
  ELSE [err |-> "", t |-> TypeInfo(guessDataType(v))]

RECURSIVE encode(_, _)
RECURSIVE encodeList(_, _)
RECURSIVE encodeMap(_, _)
RECURSIVE EncodeItems(_, _)
RECURSIVE EncodeEntries(_, _, _)

(* The switch of encode over typeInfo.type. *)
Dispatch(v, t) ==
  CASE t.code = dataTypes.int -> encodeInt(v)
    [] t.code = dataTypes.float -> encodeFloat(v)
    [] t.code = dataTypes.double -> encodeDouble(v)
    [] t.code = dataTypes.boolean -> encodeBoolean(v)
    [] t.code \in {dataTypes.text, dataTypes.varchar} -> encodeString(v, "utf8")
    [] t.code = dataTypes.ascii -> encodeString(v, "ascii")
    [] t.code \in {dataTypes.uuid, dataTypes.timeuuid} -> encodeUuid(v)
    [] t.code \in {dataTypes.custom, dataTypes.decimal, dataTypes.inet, dataTypes.blob}
         -> encodeBlob(v)
    [] t.code \in {dataTypes.bigint, dataTypes.counter} -> encodeBigNumber(v)
    [] t.code = dataTypes.timestamp -> encodeTimestamp(v)
    [] t.code = dataTypes.varint -> encodeVarint(v)
    [] t.code \in {dataTypes.list, dataTypes.set} -> encodeList(v, t)
    [] t.code = dataTypes.map -> encodeMap(v, t)
    [] OTHER -> Throw("TypeError")

encodeHintBeforeNull(v, typeInfo) ==
  LET Switch(r) == IF r.err # "" THEN Throw(r.err)
                   ELSE IF IsNullish(v) THEN Ok(Null)
                   ELSE Dispatch(v, r.t)
  IN Switch(ResolveHintFirst(v, typeInfo))

encode(v, typeInfo) ==
  IF IsNullish(v) THEN Ok(Null)
  ELSE LET Switch(r) == IF r.err # "" THEN Throw(r.err) ELSE Dispatch(v, r.t)
       IN Switch(ResolveTypeInfo(v, typeInfo))

(* The loop of encodeList: per item its length and its bytes; the first
   error an item's encode throws ends it. nul: some item encoded to null. *)
EncodeItems(items, subtype) ==
  LET Parts(r) ==
        LET failed == {i \in 1..Len(items) : r[i].err # ""}
        IN IF failed # {} THEN [err |-> r[Min(failed)].err, bytes |-> <<>>, nul |-> FALSE]
           ELSE [err |-> "",
                 bytes |-> Concat([i \in 1..Len(items) |->
                                     getLengthBuffer(r[i].val) \o r[i].val.b]),
                 nul |-> \E i \in 1..Len(items) : IsNullish(r[i].val)]
  IN Parts([i \in 1..Len(items) |-> encode(items[i], subtype)])

encodeListEmptyAsCount(v, t) ==
  IF v.k # "array" THEN Throw("TypeError")
  ELSE LET Joined(r) == IF r.err # "" THEN Throw(r.err)
                        ELSE IF r.nul THEN Throw("TypeError")
                        ELSE Ok(Buf(getLengthBuffer(v) \o r.bytes))
       IN Joined(EncodeItems(v.e, Subtype(t, 1)))

(* encodeList; Buffer.concat throws on a part that is null. *)
encodeList(v, t) ==
  IF v.k # "array" THEN Throw("TypeError")
  ELSE IF Len(v.e) = 0 THEN Ok(Null)
  ELSE LET Joined(r) == IF r.err # "" THEN Throw(r.err)
                        ELSE IF r.nul THEN Throw("TypeError")
                        ELSE Ok(Buf(getLengthBuffer(v) \o r.bytes))
       IN Joined(EncodeItems(v.e, Subtype(t, 1)))

(* The loop of encodeMap: per own property the framed key, then the framed
   value, a null value being left out of the parts. *)
EncodeEntries(entries, keySubtype, valueSubtype) ==
  LET Parts(k, w) ==
        LET failed == {i \in 1..Len(entries) : k[i].err # "" \/ w[i].err # ""}
            first == Min(failed)
        IN IF failed # {}
             THEN [err |-> IF k[first].err # "" THEN k[first].err ELSE w[first].err,
                   bytes |-> <<>>]
           ELSE [err |-> "",
                 bytes |-> Concat([i \in 1..Len(entries) |->
                                     getLengthBuffer(k[i].val) \o k[i].val.b
                                       \o getLengthBuffer(w[i].val) \o w[i].val.b])]
  IN Parts([i \in 1..Len(entries) |-> encode(Str(entries[i].b), keySubtype)],
           [i \in 1..Len(entries) |-> encode(entries[i].e[1], valueSubtype)])

encodeMapCountNonNull(v, t) ==
  IF v.k \in {"buffer", "long", "integer"} THEN Throw("Unmodelled") ELSE
  LET Joined(entries, r) ==
        IF r.err # "" THEN Throw(r.err)
        ELSE Ok(Buf(getLengthBuffer(Num(Cardinality({i \in 1..Len(entries) :
                                                   ~IsNullish(entries[i].e[1])})))
                     \o r.bytes))
  IN Joined(OwnEntries(v), EncodeEntries(OwnEntries(v), Subtype(t, 1), Subtype(t, 2)))

encodeMap(v, t) ==
  IF v.k \in {"buffer", "long", "integer"} THEN Throw("Unmodelled") ELSE
  LET Joined(entries, r) ==
        IF r.err # "" THEN Throw(r.err)
        ELSE Ok(Buf(getLengthBuffer(Num(Len(entries))) \o r.bytes))
  IN Joined(OwnEntries(v), EncodeEntries(OwnEntries(v), Subtype(t, 1), Subtype(t, 2)))

----------------------------------------------------------------------------
(* decode *)

(* A type tree [code, [subtypes]] is written Desc(code, subtypes); a subtype
   that is a bare code is CodeHint(code), one that is itself a tree is a Desc. *)

(* bytes.slice(from, to): clamped to the buffer. *)
Slice(b, from, to) ==
  SubSeq(b, from + 1, IF to > Len(b) THEN Len(b) ELSE to)

HexChar(d) == IF d < 10 THEN 48 + d ELSE 87 + d

(* uuid.unparse(bytes): 8-4-4-4-12 lower-case hex of sixteen bytes. *)
UuidUnparse(b) ==
  [i \in 1..36 |->
     IF i \in {9, 14, 19, 24} THEN 45
     ELSE LET j == i - (IF i > 24 THEN 4 ELSE IF i > 19 THEN 3
                        ELSE IF i > 14 THEN 2 ELSE IF i > 9 THEN 1 ELSE 0)
              byte == b[(j + 1) \div 2]
          IN IF j % 2 = 1 THEN HexChar(byte \div 16) ELSE HexChar(byte % 16)]

(* bytes.readDoubleBE(0), for the bytes of an integer below 2^29 or of NaN. *)
ReadDoubleBE(b) ==
  LET biased == ((b[1] % 128) * 16) + (b[2] \div 16)
      x == biased - 1023
      top == ((b[2] % 16) * 16777216) + (b[3] * 65536) + (b[4] * 256) + b[5]
      mag == Pow2(x) + (top \div Pow2(28 - x))
  IN IF b = DoubleNaN THEN NaN
     ELSE IF biased = 0 THEN Num(0)
     ELSE Num(IF b[1] >= 128 THEN -mag ELSE mag)

DoubleReadable(b) ==
  /\ Len(b) >= 8
  /\ \/ SubSeq(b, 1, 8) = DoubleNaN
     \/ \A i \in 2..8 : b[i] = 0 /\ b[1] \in {0, 128}
     \/ LET x == ((b[1] % 128) * 16) + (b[2] \div 16) - 1023
            top == ((b[2] % 16) * 16777216) + (b[3] * 65536) + (b[4] * 256) + b[5]
        IN /\ x \in 0..28
           /\ top % Pow2(28 - x) = 0
           /\ b[6] = 0 /\ b[7] = 0 /\ b[8] = 0

(* bytes.readFloatBE(0), for the bytes of an integer below 2^24 or of NaN. *)
ReadFloatBE(b) ==
  LET biased == ((b[1] % 128) * 2) + (b[2] \div 128)
      x == biased - 127
      mant == ((b[2] % 128) * 65536) + (b[3] * 256) + b[4]
      mag == Pow2(x) + (mant \div Pow2(23 - x))
  IN IF b = FloatNaN THEN NaN
     ELSE IF biased = 0 THEN Num(0)
     ELSE Num(IF b[1] >= 128 THEN -mag ELSE mag)

FloatReadable(b) ==
  /\ Len(b) >= 4
  /\ \/ SubSeq(b, 1, 4) = FloatNaN
     \/ \A i \in 2..4 : b[i] = 0 /\ b[1] \in {0, 128}
     \/ LET x == ((b[1] % 128) * 2) + (b[2] \div 128) - 127
            mant == ((b[2] % 128) * 65536) + (b[3] * 256) + b[4]
        IN x \in 0..23 /\ mant % Pow2(23 - x) = 0

decodeBigNumber(b) ==
  IF Len(b) < 8 THEN Throw("OutOfBounds") ELSE Ok(LongFromBuffer(b))

(* new Date(long.toNumber()) *)
decodeTimestamp(b) ==
  IF Len(b) < 8 THEN Throw("OutOfBounds")
  ELSE IF ToNumber(LongFromBuffer(b)).oob THEN Throw("Unmodelled")
  ELSE Ok(DateV(LongFromBuffer(b).n))

(* String(key), as map[key] = ... turns a decoded key into a property name. *)
KeyString(v) ==
  CASE v.k = "string" -> v.b
    [] v.k \in {"number", "integer", "long"} ->
         IF v.n < 0 THEN <<45>> \o DecimalChars(-v.n) ELSE DecimalChars(v.n)
    [] v.k = "boolean" -> IF v.n = 1 THEN <<116, 114, 117, 101>>
                          ELSE <<102, 97, 108, 115, 101>>
    [] OTHER -> <<>>

KeyStringKnown(v) ==
  \/ v.k \in {"string", "integer", "boolean"}
  \/ v.k = "number" /\ ~v.nan
  \/ v.k = "long" /\ ~ToNumber(v).oob

(* map[key] = v on the entries gathered so far. *)
SetProperty(entries, key, v) ==
  IF \E i \in 1..Len(entries) : entries[i].b = key
    THEN [i \in 1..Len(entries) |->
            IF entries[i].b = key THEN Entry(key, v) ELSE entries[i]]
  ELSE Append(entries, Entry(key, v))

RECURSIVE decode(_, _)
RECURSIVE DecodeItems(_, _, _, _)
RECURSIVE DecodePairs(_, _, _, _, _, _)

DecodeItemsNoAdvance(b, sub, offset, left) ==
  IF left = 0 THEN [err |-> "", items |-> <<>>, offset |-> offset]
  ELSE IF offset + 2 > Len(b) THEN [err |-> "OutOfBounds", items |-> <<>>, offset |-> offset]
  ELSE LET length == ReadUInt16BE(b, offset)
           r == decode(Buf(Slice(b, offset + 2, offset + 2 + length)), Desc(sub.code, <<>>))
       IN IF sub.hk # "number" THEN [err |-> "Error", items |-> <<>>, offset |-> offset]
          ELSE IF r.err # "" THEN [err |-> r.err, items |-> <<>>, offset |-> offset]
          ELSE LET rest == DecodeItems(b, sub, offset + 2, left - 1)
               IN IF rest.err # "" THEN rest
                  ELSE [err |-> "", items |-> <<r.val>> \o rest.items,
                        offset |-> rest.offset]

(* The loop of decodeList from item i on, offset being the read position. *)
DecodeItems(b, sub, offset, left) ==
  IF left = 0 THEN [err |-> "", items |-> <<>>, offset |-> offset]
  ELSE IF offset + 2 > Len(b) THEN [err |-> "OutOfBounds", items |-> <<>>, offset |-> offset]
  ELSE LET length == ReadUInt16BE(b, offset)
           r == decode(Buf(Slice(b, offset + 2, offset + 2 + length)), Desc(sub.code, <<>>))
       IN IF sub.hk # "number" THEN [err |-> "Error", items |-> <<>>, offset |-> offset]
          ELSE IF r.err # "" THEN [err |-> r.err, items |-> <<>>, offset |-> offset]
          ELSE LET rest == DecodeItems(b, sub, offset + 2 + length, left - 1)
               IN IF rest.err # "" THEN rest
                  ELSE [err |-> "", items |-> <<r.val>> \o rest.items,
                        offset |-> rest.offset]

decodeList(b, t) ==
  IF ~t.hasSubs THEN Throw("TypeError")
  ELSE IF Len(b) < 2 THEN Throw("OutOfBounds")
  ELSE LET r == DecodeItems(b, Subtype(t, 1), 2, ReadUInt16BE(b, 0))
       IN IF r.err # "" THEN Throw(r.err) ELSE Ok(Arr(r.items))

(* The loop of decodeMap. *)
DecodePairs(b, sub1, sub2, offset, left, acc) ==
  IF left = 0 THEN [err |-> "", entries |-> acc]
  ELSE IF offset + 2 > Len(b) THEN [err |-> "OutOfBounds", entries |-> acc]
  ELSE LET keyLength == ReadUInt16BE(b, offset)
           key == decode(Buf(Slice(b, offset + 2, offset + 2 + keyLength)),
                         Desc(sub1.code, <<>>))
           o2 == offset + 2 + keyLength
       IN IF sub1.hk # "number" THEN [err |-> "Error", entries |-> acc]
          ELSE IF key.err # "" THEN [err |-> key.err, entries |-> acc]
          ELSE IF o2 + 2 > Len(b) THEN [err |-> "OutOfBounds", entries |-> acc]
          ELSE LET valueLength == ReadUInt16BE(b, o2)
                   w == decode(Buf(Slice(b, o2 + 2, o2 + 2 + valueLength)),
                               Desc(sub2.code, <<>>))
               IN IF sub2.hk # "number" THEN [err |-> "Error", entries |-> acc]
                  ELSE IF w.err # "" THEN [err |-> w.err, entries |-> acc]
                  ELSE IF ~KeyStringKnown(key.val) THEN [err |-> "Unmodelled", entries |-> acc]
                  ELSE DecodePairs(b, sub1, sub2, o2 + 2 + valueLength, left - 1,
                                   SetProperty(acc, KeyString(key.val), w.val))

(* type[1][0][0] and type[1][1][0]: the first element of each subtype tree; a
   bare code there has no element 0. *)
TreeHead(t) == IF t.hk = "object" THEN CodeHint(t.code) ELSE NoHint

decodeMap(b, t) ==
  IF ~t.hasSubs \/ Len(t.subs) < 2 THEN Throw("TypeError")
  ELSE IF Len(b) < 2 THEN Throw("OutOfBounds")
  ELSE LET r == DecodePairs(b, TreeHead(t.subs[1]), TreeHead(t.subs[2]), 2,
                            ReadUInt16BE(b, 0), <<>>)
       IN IF r.err # "" THEN Throw(r.err) ELSE Ok(Obj(r.entries))

decodeUnknownAsBlob(bytes, type) ==
  IF bytes.k = "null" THEN Ok(Null)
  ELSE LET b == bytes.b
           c == type.code
       IN CASE c \in {dataTypes.custom, dataTypes.decimal, dataTypes.inet} -> Ok(Buf(b))
            [] c = dataTypes.varint ->
                 IF Len(b) > 4 THEN Throw("Unmodelled") ELSE Ok(IntegerFromBuffer(b))
            [] c = dataTypes.ascii -> Ok(Str(AsciiDecode(b)))
            [] c \in {dataTypes.bigint, dataTypes.counter} -> decodeBigNumber(b)
            [] c = dataTypes.timestamp -> decodeTimestamp(b)
            [] c = dataTypes.blob -> Ok(Buf(b))
            [] c = dataTypes.boolean ->
                 IF Len(b) < 1 THEN Throw("OutOfBounds") ELSE Ok(Bool(b[1] # 0))
            [] c = dataTypes.double ->
                 IF Len(b) < 8 THEN Throw("OutOfBounds")
                 ELSE IF ~DoubleReadable(b) THEN Throw("Unmodelled")
                 ELSE Ok(ReadDoubleBE(b))
            [] c = dataTypes.float ->
                 IF Len(b) < 4 THEN Throw("OutOfBounds")
                 ELSE IF ~FloatReadable(b) THEN Throw("Unmodelled")
                 ELSE Ok(ReadFloatBE(b))
            [] c = dataTypes.int ->
                 IF Len(b) < 4 THEN Throw("OutOfBounds") ELSE Ok(Num(ReadInt32BE(b, 0)))
            [] c \in {dataTypes.uuid, dataTypes.timeuuid} ->
                 IF Len(b) < 16 THEN Throw("Unmodelled") ELSE Ok(Str(UuidUnparse(b)))
            [] c \in {dataTypes.text, dataTypes.varchar} -> Ok(Str(Utf8Decode(b, 1)))
            [] c \in {dataTypes.list, dataTypes.set} -> decodeList(b, type)
            [] c = dataTypes.map -> decodeMap(b, type)
            [] OTHER -> Ok(Buf(b))

decode(bytes, type) ==
  IF bytes.k = "null" THEN Ok(Null)
  ELSE LET b == bytes.b
           c == type.code
       IN CASE c \in {dataTypes.custom, dataTypes.decimal, dataTypes.inet} -> Ok(Buf(b))
            [] c = dataTypes.varint ->
                 IF Len(b) > 4 THEN Throw("Unmodelled") ELSE Ok(IntegerFromBuffer(b))
            [] c = dataTypes.ascii -> Ok(Str(AsciiDecode(b)))
            [] c \in {dataTypes.bigint, dataTypes.counter} -> decodeBigNumber(b)
            [] c = dataTypes.timestamp -> decodeTimestamp(b)
            [] c = dataTypes.blob -> Ok(Buf(b))
            [] c = dataTypes.boolean ->
                 IF Len(b) < 1 THEN Throw("OutOfBounds") ELSE Ok(Bool(b[1] # 0))
            [] c = dataTypes.double ->
                 IF Len(b) < 8 THEN Throw("OutOfBounds")
                 ELSE IF ~DoubleReadable(b) THEN Throw("Unmodelled")
                 ELSE Ok(ReadDoubleBE(b))
            [] c = dataTypes.float ->
                 IF Len(b) < 4 THEN Throw("OutOfBounds")
                 ELSE IF ~FloatReadable(b) THEN Throw("Unmodelled")
                 ELSE Ok(ReadFloatBE(b))
            [] c = dataTypes.int ->
                 IF Len(b) < 4 THEN Throw("OutOfBounds") ELSE Ok(Num(ReadInt32BE(b, 0)))
            [] c \in {dataTypes.uuid, dataTypes.timeuuid} ->
                 IF Len(b) < 16 THEN Throw("Unmodelled") ELSE Ok(Str(UuidUnparse(b)))
            [] c \in {dataTypes.text, dataTypes.varchar} -> Ok(Str(Utf8Decode(b, 1)))
            [] c \in {dataTypes.list, dataTypes.set} -> decodeList(b, type)
            [] c = dataTypes.map -> decodeMap(b, type)
            [] OTHER -> Throw("Error")

----------------------------------------------------------------------------
(* setRoutingKey *)

(* QueryOptions: routingKey is Undefined, a Buffer, or an array of fragments;
   hints and routingIndexes are arrays when present. *)
Options(routingKey, hints, routingIndexes) ==
  [routingKey |-> routingKey, hints |-> hints, routingIndexes |-> routingIndexes]

Absent      == [present |-> FALSE, list |-> <<>>]
Present(xs) == [present |-> TRUE, list |-> xs]

(* array[i] of a JavaScript array, i counted from 0. *)
ParamAt(params_, i) ==
  IF i + 1 \in 1..Len(params_.list) THEN params_.list[i + 1] ELSE Undefined
HintAt(hints, i) ==
  IF i + 1 \in 1..Len(hints.list) THEN hints.list[i + 1] ELSE NoHint

(* routingKey.writeInt16BE(item.length); item.copy; routingKey[index] = 0 *)
FramesNoTerminator(items) ==
  Concat([i \in 1..Len(items) |-> UInt16BE(Len(items[i].b)) \o items[i].b])

Frames(items) ==
  Concat([i \in 1..Len(items) |-> UInt16BE(Len(items[i].b)) \o items[i].b \o <<0>>])

(* Lines 438-462: options.routingKey is an array. *)
ComposeArray(items) ==
  IF Len(items) = 1 THEN Ok(items[1])
  ELSE IF \E i \in 1..Len(items) : IsNullish(items[i]) THEN Throw("TypeError")
  ELSE IF \E i \in 1..Len(items) : Len(items[i].b) > 32767 THEN Throw("OutOfBounds")
  ELSE Ok(Buf(Frames(items)))

EncodeSelectedHintByPosition(params_, hints, indexes) ==
  LET Keys(r) ==
        LET failed == {i \in 1..Len(indexes) : r[i].err # ""}
        IN IF failed # {} THEN [err |-> r[Min(failed)].err, keys |-> <<>>]
           ELSE [err |-> "", keys |-> [i \in 1..Len(indexes) |-> r[i].val]]
  IN Keys([i \in 1..Len(indexes) |->
             encode(ParamAt(params_, indexes[i]), HintAt(hints, i - 1))])

EncodeSelectedSkipFailed(params_, hints, indexes) ==
  LET Keys(r) ==
        LET encoded == Ascending({i \in 1..Len(indexes) : r[i].err = ""})
        IN [err |-> "", keys |-> [k \in 1..Len(encoded) |-> r[encoded[k]].val]]
  IN Keys([i \in 1..Len(indexes) |->
             encode(ParamAt(params_, indexes[i]), HintAt(hints, indexes[i]))])

(* Lines 476-478: the encoded parameter of each routing index, in order; the
   first error ends the loop. *)
EncodeSelected(params_, hints, indexes) ==
  LET Keys(r) ==
        LET failed == {i \in 1..Len(indexes) : r[i].err # ""}
        IN IF failed # {} THEN [err |-> r[Min(failed)].err, keys |-> <<>>]
           ELSE [err |-> "", keys |-> [i \in 1..Len(indexes) |-> r[i].val]]
  IN Keys([i \in 1..Len(indexes) |->
             encode(ParamAt(params_, indexes[i]), HintAt(hints, indexes[i]))])

setRoutingKeyNoBufferCheck(params_, o) ==
  IF o.routingKey.k = "array" THEN
    LET r == ComposeArray(o.routingKey.e)
    IN IF r.err # "" THEN [err |-> r.err, options |-> o]
       ELSE [err |-> "", options |-> [o EXCEPT !.routingKey = r.val]]
  ELSE IF ~o.routingIndexes.present THEN
    [err |-> "", options |-> o]
  ELSE IF ~params_.present \/ Len(params_.list) = 0 THEN
    [err |-> "", options |-> o]
  ELSE
    LET Install(sel) ==
          IF sel.err # "" THEN [err |-> sel.err, options |-> o]
          ELSE IF Len(sel.keys) = 0 THEN [err |-> "", options |-> o]
          ELSE IF Len(sel.keys) = 1 THEN
            [err |-> "", options |-> [o EXCEPT !.routingKey = sel.keys[1]]]
          ELSE LET r == ComposeArray(sel.keys)
               IN IF r.err # "" THEN
                    [err |-> r.err, options |-> [o EXCEPT !.routingKey = Arr(sel.keys)]]
                  ELSE [err |-> "", options |-> [o EXCEPT !.routingKey = r.val]]
    IN Install(EncodeSelected(params_, IF o.hints.present THEN o.hints ELSE Present(<<>>),
                              o.routingIndexes.list))

setRoutingKeyWriteFirst(params_, o) ==
  IF o.routingKey.k = "array" THEN
    LET r == ComposeArray(o.routingKey.e)
    IN IF r.err # "" THEN [err |-> r.err, options |-> o]
       ELSE [err |-> "", options |-> [o EXCEPT !.routingKey = r.val]]
  ELSE IF o.routingKey.k = "buffer" \/ ~o.routingIndexes.present THEN
    [err |-> "", options |-> o]
  ELSE IF ~params_.present \/ Len(params_.list) = 0 THEN
    [err |-> "", options |-> o]
  ELSE
    LET Install(sel) ==
          IF sel.err # "" THEN [err |-> sel.err, options |-> [o EXCEPT !.routingKey = Arr(<<>>)]]
          ELSE IF Len(sel.keys) = 0 THEN [err |-> "", options |-> o]
          ELSE IF Len(sel.keys) = 1 THEN
            [err |-> "", options |-> [o EXCEPT !.routingKey = sel.keys[1]]]
          ELSE LET r == ComposeArray(sel.keys)
               IN IF r.err # "" THEN
                    [err |-> r.err, options |-> [o EXCEPT !.routingKey = Arr(sel.keys)]]
                  ELSE [err |-> "", options |-> [o EXCEPT !.routingKey = r.val]]
    IN Install(EncodeSelected(params_, IF o.hints.present THEN o.hints ELSE Present(<<>>),
                              o.routingIndexes.list))

(* setRoutingKey(params, options): the error thrown ("" for none) and the
   options object as the call leaves it. *)
setRoutingKey(params_, o) ==
  IF o.routingKey.k = "array" THEN
    LET r == ComposeArray(o.routingKey.e)
    IN IF r.err # "" THEN [err |-> r.err, options |-> o]
       ELSE [err |-> "", options |-> [o EXCEPT !.routingKey = r.val]]
  ELSE IF o.routingKey.k = "buffer" \/ ~o.routingIndexes.present THEN
    [err |-> "", options |-> o]
  ELSE IF ~params_.present \/ Len(params_.list) = 0 THEN
    [err |-> "", options |-> o]
  ELSE
    LET Install(sel) ==
          IF sel.err # "" THEN [err |-> sel.err, options |-> o]
          ELSE IF Len(sel.keys) = 0 THEN [err |-> "", options |-> o]
          ELSE IF Len(sel.keys) = 1 THEN
            [err |-> "", options |-> [o EXCEPT !.routingKey = sel.keys[1]]]
          ELSE LET r == ComposeArray(sel.keys)
               IN IF r.err # "" THEN
                    [err |-> r.err, options |-> [o EXCEPT !.routingKey = Arr(sel.keys)]]
                  ELSE [err |-> "", options |-> [o EXCEPT !.routingKey = r.val]]
    IN Install(EncodeSelected(params_, IF o.hints.present THEN o.hints ELSE Present(<<>>),
                              o.routingIndexes.list))

----------------------------------------------------------------------------
(* What the callers pass *)

MaxNum     == 2    \* numbers are drawn from -1..MaxNum
MaxItems   == 2    \* arrays hold up to MaxItems elements
MaxFrags   == 3    \* routingKey arrays hold up to MaxFrags fragments
MaxParams  == 2    \* a statement has up to MaxParams parameters
MaxIndexes == 2    \* routingIndexes holds up to MaxIndexes positions

SeqsUpTo(S, n) == UNION {[1..m -> S] : m \in 0..n}

Strings ==
  { <<>>, <<97>>, <<104, 233>>, <<8364>>, <<45, 49>>, <<55>>, <<48, 120, 49, 48>>,
    <<49, 57, 55, 48>>, UuidLike(97), UuidLike(65), UuidLike(57), UuidLike(103),
    SubSeq(UuidLike(97), 1, 35) }

Scalars ==
  {Num(n) : n \in -1..MaxNum} \cup {Num(200), NaN}
    \cup {Str(c) : c \in Strings}
    \cup {Bool(TRUE), Bool(FALSE), DateV(5), InvalidDate,
          LongV(0, 7), LongV(-1, -1), LongV(1, 0), IntegerV(300), IntegerV(-128),
          Buf(<<>>), Buf(<<1>>), Buf(<<1, 2, 3, 4>>), Buf([i \in 1..16 |-> 16 + i])}

Items == {Num(1), Str(<<97>>), Null, Obj(<<>>)}

Arrays ==
  {Arr(xs) : xs \in SeqsUpTo(Items, MaxItems)}
    \cup {Arr(<<Num(2), Num(-1), Num(1)>>), Arr(<<Str(<<104, 233>>), Str(<<97>>)>>)}

Objects ==
  { Obj(<<>>), Obj(<<Entry(<<97>>, Num(1))>>), Obj(<<Entry(<<97>>, Null)>>),
    Obj(<<Entry(<<97>>, Str(<<98>>)), Entry(<<98>>, Obj(<<>>))>>),
    Obj(<<Entry(<<98>>, Num(2)), Entry(<<97>>, Null)>>) }

Values == {Null, Undefined} \cup Scalars \cup Arrays \cup Objects

Codes == {dataTypes[n] : n \in DOMAIN dataTypes}

Hints ==
  {NoHint, NullHint, EmptyObjectHint, TrueHint}
    \cup {CodeHint(c) : c \in Codes \cup {99}}
    \cup {NameHint(n) : n \in {"", "int", "INT", "text", "boolean", "bigint", "blob",
                               "uuid", "list", "set", "map", "list<int>", "LIST<INT>",
                               "set<text>", "list<double>", "string", "list<"}}
    \cup {TypeInfo(c) : c \in {dataTypes.custom, dataTypes.int, dataTypes.list, 99}}
    \cup {Desc(dataTypes.list, <<CodeHint(dataTypes.int)>>),
          Desc(dataTypes.set, <<CodeHint(dataTypes.text)>>),
          Desc(dataTypes.list, <<CodeHint(dataTypes.float)>>),
          Desc(dataTypes.list, <<>>),
          Desc(dataTypes.map, <<NoHint, CodeHint(dataTypes.int)>>)}

(* The type tree the metadata layer declares for a column of the hinted
   type: [code] for a scalar, [code, [subtype]] for a list or set. *)
TreeOf(v, typeInfo) ==
  LET Tree(t, sub, first) ==
        IF t.code \in {dataTypes.list, dataTypes.set}
          THEN Desc(t.code, <<CodeHint(IF sub.hk \in {"number", "object"} THEN sub.code
                                       ELSE guessDataType(first))>>)
        ELSE Desc(t.code, <<>>)
  IN Tree(ResolveTypeInfo(v, typeInfo).t,
          Subtype(ResolveTypeInfo(v, typeInfo).t, 1),
          IF v.k = "array" /\ Len(v.e) > 0 THEN v.e[1] ELSE Undefined)

RawBytes ==
  { Null, Buf(<<>>), Buf(<<1>>), Buf(<<0, 0>>), Buf(<<0, 0, 0, 1>>),
    Buf(<<255, 255, 255, 255>>), Buf(<<0, 1, 0, 1, 97>>),
    Buf(<<0, 1, 0, 1, 97, 0, 1, 98>>), Buf(<<0, 2, 0, 1, 97>>) }

Trees ==
  {Desc(c, <<>>) : c \in Codes \cup {99}}
    \cup {Desc(dataTypes.list, <<CodeHint(dataTypes.text)>>),
          Desc(dataTypes.set, <<CodeHint(dataTypes.int)>>),
          Desc(dataTypes.list, <<CodeHint(99)>>),
          Desc(dataTypes.list, <<Desc(dataTypes.text, <<>>)>>),
          Desc(dataTypes.map, <<Desc(dataTypes.text, <<>>), Desc(dataTypes.text, <<>>)>>),
          Desc(dataTypes.map, <<Desc(dataTypes.text, <<>>), Desc(99, <<>>)>>),
          Desc(dataTypes.map, <<CodeHint(dataTypes.text), CodeHint(dataTypes.text)>>)}

ParamValues == {Num(1), Str(<<97>>), Null, Obj(<<>>)}

ParamLists == {Absent} \cup {Present(xs) : xs \in SeqsUpTo(ParamValues, MaxParams)}

HintLists ==
  { Absent,
    Present(<<NameHint("int"), NameHint("string"), NameHint("int")>>),
    Present(<<NoHint, NameHint("text")>>) }

IndexLists == {Absent} \cup {Present(xs) : xs \in SeqsUpTo(0..1, MaxIndexes)}

Fragments == {Buf(<<1>>), Buf(<<2>>), Buf(<<3, 3>>)}

RoutingKeys ==
  {Buf(<<1, 2, 3, 4>>)} \cup {Arr(xs) : xs \in SeqsUpTo(Fragments, MaxFrags)}

(* What the caller may hand to setRoutingKey: no routing key and any
   parameters, hints and indexes; or a routing key of its own. *)
OptionsDrawn ==
  {<<ps, Options(Undefined, hs, ix)>> : ps \in ParamLists, hs \in HintLists, ix \in IndexLists}
    \cup {<<ps, Options(rk, hs, ix)>> :
            ps \in {Absent, Present(<<Num(1), Str(<<97>>)>>)},
            hs \in {Absent, Present(<<NameHint("int")>>)},
            ix \in {Absent, Present(<<1, 0>>)},
            rk \in RoutingKeys}
    \cup {<<Present(<<Num(1), Str(<<97>>), Num(2)>>), Options(Undefined, hs, Present(<<0, 2>>))>> :
            hs \in HintLists}

----------------------------------------------------------------------------
(* The calls *)

NoOptions == Options(Undefined, Absent, Absent)

Init ==
  /\ op = "none"
  /\ value = Undefined /\ hint = NoHint /\ wire = Null /\ tree = NoHint
  /\ result = Ok(Undefined)
  /\ params = Absent /\ options = NoOptions /\ pre = NoOptions

(* encoder.guessDataType(v): {type: code}, or null. *)
Guess(v) ==
  /\ op = "none"
  /\ op' = "guess"
  /\ value' = v /\ hint' = NoHint /\ wire' = Null /\ tree' = NoHint
  /\ \E c \in {guessDataType(v)} : result' = Ok(IF c = -1 THEN Null ELSE Num(c))
  /\ params' = Absent /\ options' = NoOptions /\ pre' = NoOptions

(* encoder.encode(v, h) *)
Encode(v, h) ==
  /\ op = "none"
  /\ \E r \in {encode(v, h)} :
       /\ r.err # "Unmodelled"
       /\ result' = r
       /\ wire' = IF r.err = "" THEN r.val ELSE Null
  /\ op' = "encode"
  /\ value' = v /\ hint' = h /\ tree' = NoHint
  /\ params' = Absent /\ options' = NoOptions /\ pre' = NoOptions

(* encoder.decode of what encode returned, against the tree of its type. *)
RoundTrip ==
  /\ op = "encode" /\ result.err = ""
  /\ \E t \in {TreeOf(value, hint)} :
       \E r \in {decode(wire, t)} :
         /\ r.err # "Unmodelled"
         /\ tree' = t
         /\ result' = r
  /\ op' = "roundtrip"
  /\ UNCHANGED <<value, hint, wire, params, options, pre>>

(* encoder.decode(b, t) of bytes off the wire. *)
Decode(b, t) ==
  /\ op = "none"
  /\ \E r \in {decode(b, t)} :
       /\ r.err # "Unmodelled"
       /\ result' = r
  /\ op' = "decode"
  /\ value' = Undefined /\ hint' = NoHint /\ wire' = b /\ tree' = t
  /\ params' = Absent /\ options' = NoOptions /\ pre' = NoOptions

(* The execution layer builds the parameters and options of a request. *)
NewOptions(ps, o) ==
  /\ op = "none"
  /\ op' = "options"
  /\ params' = ps /\ options' = o /\ pre' = o
  /\ value' = Undefined /\ hint' = NoHint /\ wire' = Null /\ tree' = NoHint
  /\ result' = Ok(Undefined)

(* encoder.setRoutingKey(params, options) on the caller's options. *)
SetRoutingKey ==
  /\ op \in {"options", "setRoutingKey"}
  /\ op' = "setRoutingKey"
  /\ pre' = options
  /\ \E r \in {setRoutingKey(params, options)} :
       /\ options' = r.options
       /\ result' = [err |-> r.err, val |-> Undefined]
  /\ UNCHANGED <<value, hint, wire, tree, params>>

(* The caller is done with the call: the codec keeps nothing of it. *)
Return ==
  /\ op # "none"
  /\ op' = "none"
  /\ value' = Undefined /\ hint' = NoHint /\ wire' = Null /\ tree' = NoHint
  /\ result' = Ok(Undefined)
  /\ params' = Absent /\ options' = NoOptions /\ pre' = NoOptions

Next ==
  \/ \E v \in Values : Guess(v)
  \/ \E v \in Values, h \in Hints : Encode(v, h)
  \/ RoundTrip
  \/ \E b \in RawBytes, t \in Trees : Decode(b, t)
  \/ \E po \in OptionsDrawn : NewOptions(po[1], po[2])
  \/ SetRoutingKey
  \/ Return

Spec == Init /\ [][Next]_vars

----------------------------------------------------------------------------
(* Properties *)

(* The length of frags[1..n] once each is framed: its bytes and three more. *)
RECURSIVE FramedLength(_, _)
FramedLength(frags, n) ==
  IF n = 0 THEN 0 ELSE FramedLength(frags, n - 1) + Len(frags[n].b) + 3

(* rk is one buffer holding, per fragment and in order, the fragment's length
   on two bytes big-endian, the fragment, and one zero byte. *)
IsFramed(rk, frags) ==
  /\ rk.k = "buffer"
  /\ Len(rk.b) = FramedLength(frags, Len(frags))
  /\ \A i \in 1..Len(frags) :
       LET at == FramedLength(frags, i - 1)
           n == Len(frags[i].b)
       IN /\ rk.b[at + 1] = n \div 256
          /\ rk.b[at + 2] = n % 256
          /\ SubSeq(rk.b, at + 3, at + 2 + n) = frags[i].b
          /\ rk.b[at + n + 3] = 0

(* C1: encode of null or undefined returns null under every hint, an unknown
   or malformed one included: it throws nothing and returns no buffer. *)
C1_NullEncodesToNull ==
  (op = "encode" /\ IsNullish(value)) => (result = Ok(Null) /\ wire = Null)

C1_Witness ==
  /\ op = "encode" /\ value = Undefined /\ hint = NameHint("string")
  /\ result = Ok(Null)

(* C2: a routingKey that is an array of fragment buffers on entry is replaced
   by the fragment itself when there is one, and otherwise by the framed
   concatenation of the fragments in array order; nothing is thrown, and
   hints and routingIndexes are as they were, whatever they and params hold. *)
C2_ArrayRule ==
  (/\ op = "setRoutingKey"
   /\ pre.routingKey.k = "array"
   /\ \A i \in 1..Len(pre.routingKey.e) : pre.routingKey.e[i].k = "buffer")
  => /\ result.err = ""
     /\ options.hints = pre.hints
     /\ options.routingIndexes = pre.routingIndexes
     /\ IF Len(pre.routingKey.e) = 1 THEN options.routingKey = pre.routingKey.e[1]
        ELSE IsFramed(options.routingKey, pre.routingKey.e)

C2_Witness ==
  /\ op = "setRoutingKey"
  /\ pre.routingKey = Arr(<<Buf(<<1>>), Buf(<<2>>), Buf(<<3, 3>>)>>)
  /\ pre.routingIndexes = Present(<<1, 0>>)
  /\ params = Present(<<Num(1), Str(<<97>>)>>)
  /\ options.routingKey = Buf(<<0, 1, 1, 0, 0, 1, 2, 0, 0, 2, 3, 3, 0>>)

(* C3, as stated: setRoutingKey changes nothing of options and throws nothing
   whenever routingKey is a single buffer, or routingIndexes is absent, or
   params is absent or empty. *)
C3_NoOpAsStated ==
  (/\ op = "setRoutingKey"
   /\ \/ pre.routingKey.k = "buffer"
      \/ ~pre.routingIndexes.present
      \/ ~params.present
      \/ params.list = <<>>)
  => (options = pre /\ result.err = "")

(* C3, amended: the same, for a routingKey that is not an array on entry (an
   array is composed first, whatever routingIndexes and params are). *)
C3_NoOp ==
  (/\ op = "setRoutingKey"
   /\ pre.routingKey.k # "array"
   /\ \/ pre.routingKey.k = "buffer"
      \/ ~pre.routingIndexes.present
      \/ ~params.present
      \/ params.list = <<>>)
  => (options = pre /\ result.err = "")

C3_Witness ==
  /\ op = "setRoutingKey"
  /\ pre.routingKey = Buf(<<1, 2, 3, 4>>)
  /\ pre.routingIndexes = Present(<<1, 0>>)
  /\ params = Present(<<Num(1), Str(<<97>>)>>)
  /\ options = pre

(* C4: with no routingKey set, params not empty and routingIndexes a
   non-empty array, a call that returns leaves the routing key the array rule
   gives for the list of encode(params[i], hints[i]), i running through
   routingIndexes in order: the encoding itself for one index, the framed
   concatenation for more. *)
C4_FromRoutingIndexes ==
  (/\ op = "setRoutingKey"
   /\ pre.routingKey.k = "undefined"
   /\ params.present /\ params.list # <<>>
   /\ pre.routingIndexes.present /\ pre.routingIndexes.list # <<>>
   /\ result.err = "")
  => LET ix == pre.routingIndexes.list
         cand == [j \in 1..Len(ix) |->
                    encode(ParamAt(params, ix[j]), HintAt(pre.hints, ix[j])).val]
     IN /\ options.hints = pre.hints
        /\ options.routingIndexes = pre.routingIndexes
        /\ IF Len(ix) = 1 THEN options.routingKey = cand[1]
           ELSE IsFramed(options.routingKey, cand)

C4_Witness ==
  /\ op = "setRoutingKey"
  /\ pre.routingKey = Undefined
  /\ params = Present(<<Num(1), Str(<<97>>), Num(2)>>)
  /\ pre.hints = Present(<<NameHint("int"), NameHint("string"), NameHint("int")>>)
  /\ pre.routingIndexes = Present(<<0, 2>>)
  /\ options.routingKey = Buf(<<0, 4, 0, 0, 0, 1, 0, 0, 4, 0, 0, 0, 2, 0>>)

(* C5: when the parameters selected by routingIndexes are encoded and the
   encoding of one of them fails, at whichever position of routingIndexes,
   setRoutingKey throws that type error. *)
C5_EncodeFailurePropagates ==
  (/\ op = "setRoutingKey"
   /\ pre.routingKey.k \notin {"array", "buffer"}
   /\ params.present /\ params.list # <<>>
   /\ pre.routingIndexes.present
   /\ \E j \in 1..Len(pre.routingIndexes.list) :
        encode(ParamAt(params, pre.routingIndexes.list[j]),
               HintAt(pre.hints, pre.routingIndexes.list[j])).err # "")
  => result.err = "TypeError"

C5_Witness ==
  /\ op = "setRoutingKey"
  /\ params = Present(<<Num(1), Obj(<<>>)>>)
  /\ pre.hints = Absent
  /\ pre.routingIndexes = Present(<<0, 1>>)
  /\ result.err = "TypeError"

(* The type code a hint names: a code other than 0 (a hint of 0 is no hint),
   a name of the catalog in any letter case, or a descriptor's code. *)
HintedCode(h) ==
  CASE h.hk = "number" /\ h.code # 0 -> h.code
    [] h.hk = "string" /\ toLowerCase(h.name) \in DOMAIN dataTypes ->
         dataTypes[toLowerCase(h.name)]
    [] h.hk = "object" /\ h.tyNum -> h.code
    [] OTHER -> -1

(* C6: guessDataType gives double for a number, timestamp for a Date, bigint
   for a Long, varint for an Integer, uuid for a string of the 8-4-4-4-12 hex
   grammar in either letter case and text for any other string, blob for a
   buffer, list for an array, boolean for a boolean, and no match for the
   rest; it never gives int, float, set or map. *)
C6_GuessRules ==
  op = "guess" =>
    /\ value.k = "number"  => result.val = Num(dataTypes.double)
    /\ value.k = "date"    => result.val = Num(dataTypes.timestamp)
    /\ value.k = "long"    => result.val = Num(dataTypes.bigint)
    /\ value.k = "integer" => result.val = Num(dataTypes.varint)
    /\ value.k = "string"  =>
         result.val =
           Num(IF /\ Len(value.b) = 36
                  /\ \A i \in {9, 14, 19, 24} : value.b[i] = 45
                  /\ \A i \in (1..36) \ {9, 14, 19, 24} :
                       \/ value.b[i] \in 48..57
                       \/ value.b[i] \in 97..102
                       \/ value.b[i] \in 65..70
               THEN dataTypes.uuid ELSE dataTypes.text)
    /\ value.k = "buffer"  => result.val = Num(dataTypes.blob)
    /\ value.k = "array"   => result.val = Num(dataTypes.list)
    /\ value.k = "boolean" => result.val = Num(dataTypes.boolean)
    /\ value.k \in {"object", "null", "undefined"} => result.val = Null
    /\ result.val \notin {Num(dataTypes.int), Num(dataTypes.float),
                          Num(dataTypes.set), Num(dataTypes.map)}

C6_Witness ==
  /\ op = "guess" /\ value = Str(UuidLike(65))
  /\ result.val = Num(dataTypes.uuid)

(* A hint under which an array is encoded as a list or set whose elements
   have no subtype: none at all, or list or set with no subtypes. *)
ListHintWithoutSubtypes(h) ==
  \/ h \in {NoHint, NullHint}
  \/ HintedCode(h) \in {dataTypes.list, dataTypes.set} /\ (h.hasSubs => h.subs = <<>>)

(* C7: encode with no hint of a value whose type cannot be guessed, such as a
   plain object, throws a type error and returns no buffer; so does encode of
   an array that holds such a value under a list or set type without
   subtypes, and of an object that holds one under map without subtypes. *)
C7_UnguessableFails ==
  op = "encode" =>
    /\ (hint \in {NoHint, NullHint} /\ value.k = "object")
         => (result.err = "TypeError" /\ wire = Null)
    /\ (/\ value.k = "array" /\ ListHintWithoutSubtypes(hint)
        /\ \E i \in 1..Len(value.e) : value.e[i].k = "object")
         => (result.err = "TypeError" /\ wire = Null)
    /\ (/\ value.k = "object" /\ HintedCode(hint) = dataTypes.map /\ ~hint.hasSubs
        /\ \E i \in 1..Len(value.e) : value.e[i].e[1].k = "object")
         => (result.err = "TypeError" /\ wire = Null)

C7_Witness ==
  /\ op = "encode"
  /\ value = Arr(<<Num(1), Obj(<<>>)>>) /\ hint = CodeHint(dataTypes.list)
  /\ result.err = "TypeError"

(* The shapes the scalar table and the list rule accept for a type code. *)
AcceptedShape(c, v) ==
  \/ c = dataTypes.int /\ v.k = "number" /\ ~v.nan
  \/ c = dataTypes.int /\ v.k = "string" /\ v.b # <<>> /\ ~StringToNumber(v.b).nan
  \/ c \in {dataTypes.float, dataTypes.double} /\ v.k = "number"
  \/ c = dataTypes.boolean /\ v.k = "boolean"
  \/ c \in {dataTypes.text, dataTypes.varchar, dataTypes.ascii} /\ v.k = "string"
  \/ c \in {dataTypes.uuid, dataTypes.timeuuid} /\ v.k = "string" /\ UuidRegexTest(v.b)
  \/ c \in {dataTypes.uuid, dataTypes.timeuuid} /\ v.k = "buffer" /\ Len(v.b) = 16
  \/ c \in {dataTypes.blob, dataTypes.custom, dataTypes.decimal, dataTypes.inet}
       /\ v.k = "buffer"
  \/ c \in {dataTypes.bigint, dataTypes.counter} /\ v.k \in {"long", "number"}
  \/ c \in {dataTypes.bigint, dataTypes.counter} /\ v.k = "string" /\ IsDecimal(v.b)
  \/ c \in {dataTypes.list, dataTypes.set} /\ v.k = "array"

(* C8: under a hint of a code of the scalar table or of list or set, encode
   of a non-null value whose shape the code does not accept throws a type
   error. *)
C8_MismatchFails ==
  (/\ op = "encode" /\ ~IsNullish(value)
   /\ HintedCode(hint) \in (Codes \ {dataTypes.timestamp, dataTypes.varint, dataTypes.map})
   /\ ~AcceptedShape(HintedCode(hint), value))
  => result.err = "TypeError"

(* The values the claim of the round trip names for a type code. *)
NativeForm(c, v) ==
  \/ c = dataTypes.int /\ v.k = "number" /\ ~v.nan
  \/ c = dataTypes.boolean /\ v.k = "boolean"
  \/ c \in {dataTypes.text, dataTypes.varchar} /\ v.k = "string"
  \/ c \in {dataTypes.bigint, dataTypes.counter} /\ v.k = "long"
  \/ c = dataTypes.timestamp /\ v.k = "date" /\ ~v.nan
  \/ c = dataTypes.blob /\ v.k = "buffer"

(* C9: decode of encode(v, h) against [h] is v, for v in its native form for
   the scalar code h; an int is four bytes, big-endian two's complement (-1 is
   ff ff ff ff, 0 is 00 00 00 00), a boolean is the one byte 0 or 1. *)
C9_ScalarRoundTrip ==
  (op = "roundtrip" /\ NativeForm(HintedCode(hint), value))
  => /\ tree = Desc(HintedCode(hint), <<>>)
     /\ result = Ok(value)
     /\ HintedCode(hint) = dataTypes.int =>
          /\ Len(wire.b) = 4
          /\ (wire.b[1] - (IF wire.b[1] >= 128 THEN 256 ELSE 0)) * 16777216
               + wire.b[2] * 65536 + wire.b[3] * 256 + wire.b[4] = value.n
          /\ value.n = -1 => wire.b = <<255, 255, 255, 255>>
          /\ value.n = 0 => wire.b = <<0, 0, 0, 0>>
     /\ HintedCode(hint) = dataTypes.boolean => wire.b = <<value.n>>

C9_Witness ==
  /\ op = "roundtrip"
  /\ value = Num(-1) /\ hint = NameHint("int")
  /\ wire = Buf(<<255, 255, 255, 255>>)
  /\ result = Ok(Num(-1))

(* The array value is encoded as a list or set: the hint names list or set,
   or there is no hint and list is guessed. *)
EncodedAsList ==
  /\ op = "encode" /\ value.k = "array"
  /\ \/ ~Truthy(hint)
     \/ HintedCode(hint) \in {dataTypes.list, dataTypes.set}
     \/ hint.hk = "string" /\ toLowerCase(hint.name) \in {"list<int>", "set<text>"}

StartsWithCount ==
  /\ result.err = "" /\ wire.k = "buffer" /\ Len(wire.b) >= 2
  /\ wire.b[1] = Len(value.e) \div 256 /\ wire.b[2] = Len(value.e) % 256

(* C10, as stated: an empty array under a list or set type encodes to null,
   and every array that is not empty to a buffer that starts with its
   element count on two bytes, big-endian. *)
C10_AsStated ==
  EncodedAsList =>
    IF value.e = <<>> THEN result = Ok(Null) ELSE StartsWithCount

(* C10, amended: an empty array under a list or set type encodes to null; an
   array that is not empty never encodes to null: encode throws a type error
   or returns a buffer that starts with the element count on two bytes,
   big-endian, and it returns that buffer whenever no element is null and
   every element can be encoded under the subtype, or under its guessed type
   when there is no subtype. *)
C10_EmptyListIsNull ==
  EncodedAsList =>
    /\ value.e = <<>> => (result = Ok(Null) /\ wire = Null)
    /\ value.e # <<>> => (result.err = "TypeError" \/ StartsWithCount)
    /\ (/\ value.e # <<>>
        /\ \A i \in 1..Len(value.e) :
             /\ ~IsNullish(value.e[i])
             /\ encode(value.e[i], Subtype(ResolveTypeInfo(value, hint).t, 1)).err = "")
         => StartsWithCount

C10_Witness ==
  /\ op = "encode" /\ value = Arr(<<>>) /\ hint = NameHint("set<text>")
  /\ result = Ok(Null)

(* The subtype the elements of the array value are encoded under. *)
ElementSubtype == Subtype(ResolveTypeInfo(value, hint).t, 1)

(* Each element framed in order: the length of its encoding on two bytes,
   big-endian, then the encoding; a null element is the two bytes of a zero
   length and no body. *)
FramedElements(items, subtype) ==
  Concat([i \in 1..Len(items) |->
            IF IsNullish(items[i]) THEN <<0, 0>>
            ELSE UInt16BE(Len(encode(items[i], subtype).val.b))
                   \o encode(items[i], subtype).val.b])

(* C11: encode of a non-empty array that holds a null or undefined element,
   under a list or set type, returns a buffer: the count of all the elements,
   the null ones included, then each element framed, a null element as a zero
   length prefix with no body. *)
C11_NullElementFramed ==
  (/\ EncodedAsList /\ value.e # <<>>
   /\ \E i \in 1..Len(value.e) : IsNullish(value.e[i])
   /\ \A i \in 1..Len(value.e) : encode(value.e[i], ElementSubtype).err = "")
  => /\ result.err = ""
     /\ wire = Buf(UInt16BE(Len(value.e)) \o FramedElements(value.e, ElementSubtype))

(* The bytes hold the count of a collection, and the count is not zero. *)
HoldsElements(b) == Len(b) >= 2 /\ ReadUInt16BE(b, 0) >= 1

(* C12, as stated: decode against a tree whose root code is not a code of the
   catalog throws for every bytes argument, null included. *)
C12_AsStated ==
  (op = "decode" /\ tree.code \notin Codes) => result.err # ""

(* C12, amended: decode of null bytes returns null whatever the tree, an
   unknown root code included; decode of a buffer throws and returns no value
   when the root code of the tree is not a code of the catalog, and when the
   buffer holds a list, set or map of at least one element and the code of a
   subtype of the tree is not a code of the catalog. *)
C12_UnknownCodeThrows ==
  op = "decode" =>
    /\ wire = Null => result = Ok(Null)
    /\ (wire.k = "buffer" /\ tree.code \notin Codes) => result = Throw("Error")
    /\ (/\ wire.k = "buffer" /\ HoldsElements(wire.b)
        /\ tree.code \in {dataTypes.list, dataTypes.set}
        /\ Len(tree.subs) >= 1
        /\ tree.subs[1].hk = "number" /\ tree.subs[1].code \notin Codes)
         => (result.err # "" /\ result.val = Undefined)
    /\ (/\ wire.k = "buffer" /\ HoldsElements(wire.b)
        /\ tree.code = dataTypes.map
        /\ Len(tree.subs) >= 2
        /\ \E i \in 1..2 : tree.subs[i].hk = "object" /\ tree.subs[i].code \notin Codes)
         => (result.err # "" /\ result.val = Undefined)

C12_Witness ==
  /\ op = "decode"
  /\ wire = Buf(<<0, 1, 0, 1, 97>>)
  /\ tree = Desc(dataTypes.list, <<CodeHint(99)>>)
  /\ result = Throw("Error")

(* The elements the claim of the list round trip names for a subtype code. *)
ListNative(c, v) ==
  \/ NativeForm(c, v)
  \/ c \in {dataTypes.double, dataTypes.float} /\ v.k = "number" /\ ~v.nan

(* C13: a non-empty array of non-null elements in the native form of the
   scalar subtype T, encoded under list<T> or set<T>, is the element count on
   two bytes big-endian and then, per element in order, the length of its
   encoding on two bytes big-endian and its encoding; decode of that buffer
   against [list, [T]] is an array of the same length whose elements equal
   those of the array, in order, and decodeList ends its reading at the last
   byte encodeList wrote. *)
C13_ListRoundTrip ==
  (/\ op = "roundtrip" /\ value.k = "array" /\ value.e # <<>>
   /\ ResolveTypeInfo(value, hint).t.code \in {dataTypes.list, dataTypes.set}
   /\ ElementSubtype.hk \in {"number", "object"}
   /\ \A i \in 1..Len(value.e) : ListNative(ElementSubtype.code, value.e[i]))
  => /\ wire = Buf(UInt16BE(Len(value.e)) \o FramedElements(value.e, ElementSubtype))
     /\ tree = Desc(ResolveTypeInfo(value, hint).t.code, <<CodeHint(ElementSubtype.code)>>)
     /\ result.err = ""
     /\ result.val.k = "array"
     /\ Len(result.val.e) = Len(value.e)
     /\ \A i \in 1..Len(value.e) : result.val.e[i] = value.e[i]
     /\ DecodeItems(wire.b, CodeHint(ElementSubtype.code), 2, Len(value.e)).offset
          = Len(wire.b)

C13_Witness ==
  /\ op = "roundtrip"
  /\ value = Arr(<<Num(2), Num(-1), Num(1)>>) /\ hint = NameHint("list<int>")
  /\ wire = Buf(<<0, 3, 0, 4, 0, 0, 0, 2, 0, 4, 255, 255, 255, 255, 0, 4, 0, 0, 0, 1>>)
  /\ result = Ok(Arr(<<Num(2), Num(-1), Num(1)>>))

(* The subtypes the keys and the values of the object value are encoded
   under. *)
KeySubtype   == Subtype(ResolveTypeInfo(value, hint).t, 1)
ValueSubtype == Subtype(ResolveTypeInfo(value, hint).t, 2)

(* One encoding framed: its length on two bytes, big-endian, and its bytes;
   null is the two bytes of a zero length and nothing more. *)
FramedOrNull(r) == IF r.val = Null THEN <<0, 0>> ELSE UInt16BE(Len(r.val.b)) \o r.val.b

(* C14: encode of an object under the map type is the number of its own
   entries on two bytes, big-endian, then per entry in order the framed
   encoded key and the framed encoded value; an entry whose value is null is
   counted and written, its value as a zero length prefix with no body, and an
   object without entries is the two bytes of a zero count, not null. *)
C14_MapEncoding ==
  (/\ op = "encode" /\ value.k = "object"
   /\ ResolveTypeInfo(value, hint).err = ""
   /\ ResolveTypeInfo(value, hint).t.code = dataTypes.map
   /\ \A i \in 1..Len(value.e) :
        /\ encode(Str(value.e[i].b), KeySubtype).err = ""
        /\ encode(value.e[i].e[1], ValueSubtype).err = "")
  => /\ result.err = ""
     /\ wire = Buf(UInt16BE(Len(value.e))
                     \o Concat([i \in 1..Len(value.e) |->
                                  FramedOrNull(encode(Str(value.e[i].b), KeySubtype))
                                    \o FramedOrNull(encode(value.e[i].e[1], ValueSubtype))]))
     /\ value.e = <<>> => wire = Buf(<<0, 0>>)

C14_Witness ==
  /\ op = "encode"
  /\ value = Obj(<<Entry(<<98>>, Num(2)), Entry(<<97>>, Null)>>)
  /\ hint = Desc(dataTypes.map, <<NoHint, CodeHint(dataTypes.int)>>)
  /\ wire = Buf(<<0, 2, 0, 1, 98, 0, 4, 0, 0, 0, 2, 0, 1, 97, 0, 0>>)

(* The call takes the path of the routing indexes: no routing key is set,
   there are parameters, and routingIndexes is an array. *)
SelectsByIndexes ==
  /\ op = "setRoutingKey"
  /\ pre.routingKey.k = "undefined"
  /\ params.present /\ params.list # <<>>
  /\ pre.routingIndexes.present

(* encode of the parameter at position j of the routing indexes. *)
EncodedSelected(j) ==
  encode(ParamAt(params, pre.routingIndexes.list[j]),
         HintAt(pre.hints, pre.routingIndexes.list[j]))

(* C15: with no routing key set, params not empty, routingIndexes a non-empty
   array of positions of params, and every selected parameter encoding
   without error, a null one included, setRoutingKey returns and leaves
   options.routingKey one buffer: not an array, not null. *)
C15_UsableKey ==
  (/\ SelectsByIndexes
   /\ pre.routingIndexes.list # <<>>
   /\ \A j \in 1..Len(pre.routingIndexes.list) :
        /\ pre.routingIndexes.list[j] \in 0..(Len(params.list) - 1)
        /\ EncodedSelected(j).err = "")
  => (result.err = "" /\ options.routingKey.k = "buffer")

(* C16: when setRoutingKey throws because the encoding of a parameter that
   routingIndexes selects fails, routingKey, hints and routingIndexes of
   options are what they were before the call. *)
C16_NoPartialMutation ==
  (/\ SelectsByIndexes
   /\ \E j \in 1..Len(pre.routingIndexes.list) : EncodedSelected(j).err # "")
  => (result.err # "" /\ options = pre)

C16_Witness ==
  /\ op = "setRoutingKey"
  /\ params = Present(<<Str(<<97>>), Obj(<<>>)>>)
  /\ pre = Options(Undefined, Present(<<NoHint, NameHint("text")>>), Present(<<0, 1>>))
  /\ result.err = "TypeError"
  /\ options = pre

====
